---- MODULE Spec2Model ----
(***************************************************************************)
(* Model of the zenoh-d435i frame wire codec (src/src/zenoh_types.rs) and  *)
(* of the capture loop that publishes its messages (src/src/main.rs).      *)
(*                                                                         *)
(* Numbers.  An f32 distance is held as an integer count of 2^-24 metres   *)
(* (F32One counts make one metre); every f32 arithmetic step rounds its    *)
(* exact result to 24 significant bits, ties to even, as IEEE-754 binary32 *)
(* does.  Bytes are integers 0..255 and byte strings are sequences.        *)
(***************************************************************************)
EXTENDS Integers, Sequences, FiniteSets, TLC

VARIABLES
    \* one quantizer call chain: encode_meters_to_u16, then decode_u16_to_meters
    qpc,        \* "input", "encoded" or "decoded"
    qmeters,    \* the f32 distance given to encode_meters_to_u16
    qcode,      \* the u16 it returned
    qback       \* the f32 distance decode_u16_to_meters returned for qcode

qvars == <<qpc, qmeters, qcode, qback>>

VARIABLES
    \* one message through the codec: a record is built from captured frames,
    \* encoded, carried (intact or damaged) and decoded
    cpc,        \* "start", "built", "sent", "received", "decoded", "done",
                \* or "panicked" when the sending side panicked
    op,         \* which record: "wire", "color", "motion", "combined", "depth"
    depthFrame, \* the captured DepthFrame
    colorFrame, \* the captured ColorFrame
    motionSample, \* the captured gyro and accel vectors and their timestamp
    built,      \* the record built from them
    sent,       \* the bytes its encode operation returned
    tamper,     \* what happened to the bytes on the way
    recv,       \* the bytes handed to the decode operation
    wireMsg,    \* the CombinedFrameWire returned by CombinedFrameWire::decode
    out         \* what the decode operation returned

cvars ==
    <<cpc, op, depthFrame, colorFrame, motionSample, built, sent, tamper, recv,
      wireMsg, out>>

VARIABLES
    \* the capture loop of main
    mpc,        \* "wait", "video", "imu", "end" (of one iteration), "exit"
                \* (main returned an error) or "panicked"
    gyro,       \* main's variable gyro
    accel,      \* main's variable accel
    frames,     \* the frame set pipeline.wait returned in this iteration
    published   \* the messages put on the session in this iteration, in order

mvars == <<mpc, gyro, accel, frames, published>>

vars == <<qvars, cvars, mvars>>

(***************************************************************************)
(* Bounds of the model.                                                    *)
(***************************************************************************)
\* codes 0..MaxCodeSample * CodeStride are sampled by the quantizer checks
MaxCodeSample == 12
CodeStride == 137
\* frames are 0..MaxDim samples wide and high
MaxDim == 2
\* sample patterns 0..MaxSeed fill the frames
MaxSeed == 1
\* a frame set holds 0..MaxFrames frames of each kind
MaxFrames == 2

(***************************************************************************)
(* binary32 arithmetic on counts of 2^-24                                  *)
(***************************************************************************)
F32One == 2^24

Abs(n) == IF n < 0 THEN -n ELSE n

Sign(n) == IF n < 0 THEN -1 ELSE 1

RECURSIVE BitLen(_)
BitLen(n) == IF n = 0 THEN 0 ELSE 1 + BitLen(n \div 2)

\* q, or q + 1 when the discarded part rem/unit is above one half, or is one
\* half and q is odd (round to nearest, ties to even)
RoundHalfEven(q, rem, unit) ==
    IF 2 * rem > unit \/ (2 * rem = unit /\ q % 2 = 1) THEN q + 1 ELSE q

\* the binary32 value nearest the non-negative count n
RoundF32(n) ==
    LET d == IF BitLen(n) > 24 THEN BitLen(n) - 24 ELSE 0
        u == 2^d
    IN  RoundHalfEven(n \div u, n % u, u) * u

\* f32 subtraction a - b
F32Sub(a, b) == Sign(a - b) * RoundF32(Abs(a - b))

\* f32 addition a + b
F32Add(a, b) == Sign(a + b) * RoundF32(Abs(a + b))

\* The exact product x * k of a non-negative f32 count x and an integer
\* k < 2^14, as the pair hi * 2^14 + lo scaled by 2^sh (30-bit arithmetic only).
ExactMul(x, k) ==
    LET sh == IF BitLen(x) > 24 THEN BitLen(x) - 24 ELSE 0
        xm == x \div 2^sh
        a  == xm \div 2^14
        b  == xm % 2^14
    IN  [hi |-> a * k + (b * k) \div 2^14, lo |-> (b * k) % 2^14, sh |-> sh]

\* floor of the exact product, in whole metres-times-k (counts / 2^24)
ExactMulFloor(x, k) ==
    LET p == ExactMul(x, k)
    IN  p.hi \div 2^(10 - p.sh)

\* The f32 product of x and k, rounded to 24 significant bits and then
\* truncated to an integer (the integer part of the rounded float).
F32MulTrunc(x, k) ==
    LET p  == ExactMul(x, k)
        bl == IF p.hi = 0 THEN BitLen(p.lo) ELSE BitLen(p.hi) + 14
        d  == IF bl > 24 THEN bl - 24 ELSE 0
        q  == p.hi * 2^(14 - d) + p.lo \div 2^d
        r  == RoundHalfEven(q, p.lo % 2^d, 2^d)
    IN  r \div 2^(24 - d - p.sh)

\* long division: the quotient and remainder of (num * 2^bits) / den
RECURSIVE DivBits(_, _, _, _)
DivBits(q, r, den, bits) ==
    IF bits = 0 THEN [q |-> q, r |-> r]
    ELSE DivBits(2 * q + (2 * r) \div den, (2 * r) % den, den, bits - 1)

\* The f32 quotient n / k of integers 0 <= n < 2^16, 0 < k < 2^14: the
\* significand q (24 bits) and the binary exponent e with value q * 2^-e.
F32DivInt(n, k) ==
    IF n = 0 THEN [q |-> 0, e |-> 0]
    ELSE LET int  == n \div k
             bits == 24 - BitLen(int)
             \* leading zero bits of a quotient below one
             RECURSIVE Lead(_, _)
             Lead(r, i) == IF 2 * r >= k THEN i ELSE Lead(2 * r, i + 1)
             e    == IF int > 0 THEN bits ELSE 24 + Lead(n, 0)
             d    == DivBits(int, n % k, k, e)
         IN  [q |-> RoundHalfEven(d.q, d.r, k), e |-> e]

\* the f32 sum of the quotient c (as F32DivInt returns it) and the count b
F32AddQuot(c, b) ==
    IF c.e <= 24 THEN F32Add(c.q * 2^(24 - c.e), b)
    ELSE LET u    == 2^(c.e - 24)
             whole == b + c.q \div u
             frac  == c.q % u
             bl    == BitLen(whole)
         IN  IF bl > 24
             THEN RoundF32(whole)   \* not reached below one metre
             ELSE RoundHalfEven(whole, frac, u)

(***************************************************************************)
(* Quantizer (zenoh_types.rs 46-55)                                        *)
(***************************************************************************)
DEPTH_SCALE_FACTOR == 8738

MINIMUM_DISTANCE_METERS == F32One \div 2

U16_MAX == 2^16 - 1

\* the largest distance whose code fits: 65535 / SCALE + MIN = 8.0 metres
MaxMeters ==
    DivBits(U16_MAX \div DEPTH_SCALE_FACTOR, U16_MAX % DEPTH_SCALE_FACTOR,
            DEPTH_SCALE_FACTOR, 24).q + MINIMUM_DISTANCE_METERS

\* a wrapping float-to-u16 conversion: the integer part modulo 2^16
WrappingCastU16(v) == v % 2^16

\* Rust's `as u16` on a float: the integer part, saturated at 0 and 65535
CastU16(v) == IF v < 0 THEN 0 ELSE IF v > U16_MAX THEN U16_MAX ELSE v

encode_meters_to_u16(meters) ==
    LET x == F32Sub(meters, MINIMUM_DISTANCE_METERS)
    IN  CastU16(Sign(x) * F32MulTrunc(Abs(x), DEPTH_SCALE_FACTOR))

\* decoding that forgets the minimum-distance offset
DecodeNoOffset(code) == F32AddQuot(F32DivInt(code, DEPTH_SCALE_FACTOR), 0)

decode_u16_to_meters(code) ==
    F32AddQuot(F32DivInt(code, DEPTH_SCALE_FACTOR), MINIMUM_DISTANCE_METERS)

(***************************************************************************)
(* Byte strings and decode results                                         *)
(***************************************************************************)
\* a failed decode (the unwrap panics), and a successful one that read up to
\* position next - 1
Err == [ok |-> FALSE]

Ok(v, n) == [ok |-> TRUE, val |-> v, next |-> n]

Slice(b, from, to) == SubSeq(b, from, to)

StartsWith(b, prefix) ==
    Len(b) >= Len(prefix) /\ SubSeq(b, 1, Len(prefix)) = prefix

(***************************************************************************)
(* bincode, standard configuration: little endian, variable-length         *)
(* integers, structs as their fields in declaration order, Vec as its      *)
(* length followed by its items, floats as their IEEE-754 bytes.           *)
(***************************************************************************)
\* an f64 is held as its sign, biased exponent and the two halves (26 bits
\* each) of its 52-bit fraction
F64(s, e, mh, ml) == [s |-> s, e |-> e, mh |-> mh, ml |-> ml]

F64Encode(t) ==
    << t.ml % 256,
       (t.ml \div 2^8) % 256,
       (t.ml \div 2^16) % 256,
       t.ml \div 2^24 + (t.mh % 2^6) * 4,
       (t.mh \div 2^6) % 256,
       (t.mh \div 2^14) % 256,
       t.mh \div 2^22 + (t.e % 16) * 16,
       t.e \div 16 + t.s * 128 >>

F64Decode(b, p) ==
    IF p + 7 > Len(b) THEN Err
    ELSE Ok(F64(b[p + 7] \div 128,
                (b[p + 7] % 128) * 16 + b[p + 6] \div 16,
                (b[p + 6] % 16) * 2^22 + b[p + 5] * 2^14 + b[p + 4] * 2^6
                    + b[p + 3] \div 4,
                (b[p + 3] % 4) * 2^24 + b[p + 2] * 2^16 + b[p + 1] * 2^8
                    + b[p]),
            p + 8)

\* an f32 is held as its sign, biased exponent and 23-bit fraction
F32(s, e, m) == [s |-> s, e |-> e, m |-> m]

F32Encode(x) ==
    << x.m % 256,
       (x.m \div 2^8) % 256,
       x.m \div 2^16 + (x.e % 2) * 128,
       x.e \div 2 + x.s * 128 >>

F32Decode(b, p) ==
    IF p + 3 > Len(b) THEN Err
    ELSE Ok(F32(b[p + 3] \div 128,
                (b[p + 3] % 128) * 2 + b[p + 2] \div 128,
                (b[p + 2] % 128) * 2^16 + b[p + 1] * 2^8 + b[p]),
            p + 4)

\* an unsigned integer below 2^31: one byte below 251, else a marker byte
\* (251: u16, 252: u32) and the value little endian
VarintEncode(n) ==
    IF n < 251 THEN <<n>>
    ELSE IF n < 2^16 THEN <<251, n % 256, n \div 256>>
    ELSE <<252, n % 256, (n \div 2^8) % 256, (n \div 2^16) % 256, n \div 2^24>>

\* Reads an unsigned integer whose type holds `bits` bits (16 for u16, 64 for
\* usize).  A marker for a wider integer than the type is an error.  Values of
\* 2^31 and more are beyond this model's integers and read as an error.
VarintDecode(b, p, bits) ==
    IF p > Len(b) THEN Err
    ELSE IF b[p] < 251 THEN Ok(b[p], p + 1)
    ELSE IF b[p] = 251
         THEN IF p + 2 > Len(b) THEN Err
              ELSE Ok(b[p + 1] + b[p + 2] * 256, p + 3)
    ELSE IF b[p] = 252 /\ bits >= 32
         THEN IF p + 4 > Len(b) \/ b[p + 4] >= 128 THEN Err
              ELSE Ok(b[p + 1] + b[p + 2] * 2^8 + b[p + 3] * 2^16
                          + b[p + 4] * 2^24, p + 5)
    ELSE Err

\* Vec<u8>: the length, then the bytes
VecU8Encode(v) == VarintEncode(Len(v)) \o v

VecU8Decode(b, p) ==
    LET n == VarintDecode(b, p, 64)
    IN  IF ~n.ok THEN Err
        ELSE IF n.next + n.val - 1 > Len(b) THEN Err
        ELSE Ok(Slice(b, n.next, n.next + n.val - 1), n.next + n.val)

\* the items of a Vec<u16>, each a variable-length integer
RECURSIVE U16ItemsEncode(_)
U16ItemsEncode(v) ==
    IF v = <<>> THEN <<>>
    ELSE VarintEncode(Head(v)) \o U16ItemsEncode(Tail(v))

VecU16Encode(v) == VarintEncode(Len(v)) \o U16ItemsEncode(v)

RECURSIVE U16ItemsDecode(_, _, _, _)
U16ItemsDecode(b, p, n, acc) ==
    IF n = 0 THEN Ok(acc, p)
    ELSE LET x == VarintDecode(b, p, 16)
         IN  IF ~x.ok THEN Err
             ELSE U16ItemsDecode(b, x.next, n - 1, Append(acc, x.val))

VecU16Decode(b, p) ==
    LET n == VarintDecode(b, p, 64)
    IN  IF ~n.ok THEN Err ELSE U16ItemsDecode(b, n.next, n.val, <<>>)

(***************************************************************************)
(* zstd (copy_encode / decode_all).  A frame is the magic number, the      *)
(* frame header (descriptor and window descriptor), and here one last raw  *)
(* block: a 3-byte block header holding the size, then the content.        *)
(***************************************************************************)
ZstdMagic == <<40, 181, 47, 253>>

\* window descriptor byte the encoder writes at a compression level
ZstdWindow(level) == IF level >= 3 THEN 88 ELSE 72

copy_encode(src, level) ==
    ZstdMagic \o <<0, ZstdWindow(level)>>
        \o <<(Len(src) * 8 + 1) % 256, (Len(src) * 8 + 1) \div 256, 0>>
        \o src

\* decode_all: every frame of the input, concatenated; anything that is not
\* a whole frame is an error
RECURSIVE ZstdFrames(_, _, _)
ZstdFrames(b, p, acc) ==
    IF p > Len(b) THEN Ok(acc, p)
    ELSE IF p + 8 > Len(b) \/ Slice(b, p, p + 3) # ZstdMagic \/ b[p + 4] # 0
         THEN Err
    ELSE LET hdr  == b[p + 6] + b[p + 7] * 256 + b[p + 8] * 2^16
             size == hdr \div 8
         IN  IF hdr % 8 # 1 \/ p + 8 + size > Len(b) THEN Err
             ELSE ZstdFrames(b, p + 9 + size,
                             acc \o Slice(b, p + 9, p + 8 + size))

decode_all(b) == IF b = <<>> THEN Err ELSE ZstdFrames(b, 1, <<>>)

(***************************************************************************)
(* turbojpeg (compress_image / decompress_image).  The stream begins with  *)
(* the start-of-image marker FF D8, carries the height and width as 16-bit *)
(* big-endian numbers, the samples with their low bits dropped (the codec  *)
(* is lossy), and ends with the end-of-image marker FF D9.                 *)
(***************************************************************************)
JpegSOI == <<255, 216>>

JpegEOI == <<255, 217>>

\* the largest image dimension libjpeg accepts
JPEG_MAX_DIMENSION == 65500

JpegQuantize(rgb) == [i \in 1..Len(rgb) |-> rgb[i] \div 16]

JpegDequantize(q) == [i \in 1..Len(q) |-> q[i] * 16 + 8]

\* ImageBuffer::from_vec(..).unwrap() and compress_image(..).unwrap()
compress_image(width, height, rgb) ==
    IF \/ Len(rgb) < width * height * 3
       \/ width < 1 \/ height < 1
       \/ width > JPEG_MAX_DIMENSION \/ height > JPEG_MAX_DIMENSION
    THEN Err
    ELSE Ok(JpegSOI
              \o <<height \div 256, height % 256, width \div 256, width % 256>>
              \o JpegQuantize(rgb) \o JpegEOI, 0)

decompress_image(jpeg) ==
    IF ~StartsWith(jpeg, JpegSOI) \/ Len(jpeg) < 8 THEN Err
    ELSE LET height == jpeg[3] * 256 + jpeg[4]
             width  == jpeg[5] * 256 + jpeg[6]
         IN  IF \/ Len(jpeg) # 8 + width * height * 3
                \/ Slice(jpeg, Len(jpeg) - 1, Len(jpeg)) # JpegEOI
                \/ width < 1 \/ height < 1
             THEN Err
             ELSE Ok([width |-> width, height |-> height,
                      rgb |-> JpegDequantize(Slice(jpeg, 7, Len(jpeg) - 2))], 0)

(***************************************************************************)
(* Frames of the capture source (realsense_rust DepthFrame / ColorFrame):  *)
(* [width, height, timestamp] and the samples, distance[<<col, row>>] in   *)
(* metres or pixel[<<col, row>>], a PixelKind.                             *)
(***************************************************************************)
\* get_data_from_pixel: the b, g, r of a Bgr8 pixel; panics on any other kind
get_data_from_pixel(pixel) ==
    IF pixel.kind = "Bgr8"
    THEN Ok([b |-> pixel.b, g |-> pixel.g, r |-> pixel.r], 0)
    ELSE Err

\* the r, g, b bytes of the frame, row by row (the loops of
\* ColorFrameSerializable::new and of from_frames); Err when a pixel panics
RECURSIVE RgbCols(_, _, _)
RgbCols(frame, row, col) ==
    IF col >= frame.width THEN Ok(<<>>, 0)
    ELSE LET px   == get_data_from_pixel(frame.pixel[<<col, row>>])
             rest == RgbCols(frame, row, col + 1)
         IN  IF ~px.ok \/ ~rest.ok THEN Err
             ELSE Ok(<<px.val.r, px.val.g, px.val.b>> \o rest.val, 0)

RECURSIVE RgbRows(_, _)
RgbRows(frame, row) ==
    IF row >= frame.height THEN Ok(<<>>, 0)
    ELSE LET cols == RgbCols(frame, row, 0)
             rest == RgbRows(frame, row + 1)
         IN  IF ~cols.ok \/ ~rest.ok THEN Err
             ELSE Ok(cols.val \o rest.val, 0)

\* the quantized distances of the frame, row by row (the loops of
\* DepthFrameSerializable::new)
RECURSIVE DepthCols(_, _, _)
DepthCols(frame, row, col) ==
    IF col >= frame.width THEN <<>>
    ELSE <<encode_meters_to_u16(frame.distance[<<col, row>>])>>
             \o DepthCols(frame, row, col + 1)

RECURSIVE DepthRows(_, _)
DepthRows(frame, row) ==
    IF row >= frame.height THEN <<>>
    ELSE DepthCols(frame, row, 0) \o DepthRows(frame, row + 1)

\* the same samples taken column by column
RECURSIVE DepthColumnMajor(_, _, _)
DepthColumnMajor(frame, col, row) ==
    IF col >= frame.width THEN <<>>
    ELSE IF row >= frame.height THEN DepthColumnMajor(frame, col + 1, 0)
    ELSE <<encode_meters_to_u16(frame.distance[<<col, row>>])>>
             \o DepthColumnMajor(frame, col, row + 1)

DepthFrameSerializable_new_ColumnMajor(frame, timestamp) ==
    [width |-> frame.width, height |-> frame.height,
     timestamp |-> timestamp, data |-> DepthColumnMajor(frame, 0, 0)]

DepthFrameSerializable_new(frame, timestamp) ==
    [width |-> frame.width, height |-> frame.height,
     timestamp |-> timestamp, data |-> DepthRows(frame, 0)]

\* ColorFrameSerializable::new; Err when a pixel is of an unsupported kind
ColorFrameSerializable_new(frame, timestamp) ==
    LET rgb == RgbRows(frame, 0)
    IN  IF ~rgb.ok THEN Err
        ELSE Ok([width |-> frame.width, height |-> frame.height,
                 timestamp |-> timestamp, data |-> rgb.val], 0)

MotionFrameData_new(gyroVec, accelVec, timestamp) ==
    [gyro |-> gyroVec, accel |-> accelVec, timestamp |-> timestamp]

CombinedFrame_new(rgb, depth, timestamp) ==
    [rgb |-> rgb, depth |-> depth, timestamp |-> timestamp]

(***************************************************************************)
(* bincode layouts of the records: the fields in declaration order         *)
(***************************************************************************)
\* the depth record with the timestamp ahead of the data
DepthBincodeTimestampFirst(d) ==
    VarintEncode(d.width) \o VarintEncode(d.height)
        \o F64Encode(d.timestamp) \o VecU16Encode(d.data)

\* DepthFrameSerializable { width, height, data, timestamp }
DepthBincode(d) ==
    VarintEncode(d.width) \o VarintEncode(d.height)
        \o VecU16Encode(d.data) \o F64Encode(d.timestamp)

DepthBincodeDecode(b, p) ==
    LET w  == VarintDecode(b, p, 64)
        h  == IF w.ok THEN VarintDecode(b, w.next, 64) ELSE Err
        d  == IF h.ok THEN VecU16Decode(b, h.next) ELSE Err
        t  == IF d.ok THEN F64Decode(b, d.next) ELSE Err
    IN  IF ~t.ok THEN Err
        ELSE Ok([width |-> w.val, height |-> h.val, timestamp |-> t.val,
                 data |-> d.val], t.next)

\* ColorFrameSerializable { width, height, data, timestamp }
ColorBincode(c) ==
    VarintEncode(c.width) \o VarintEncode(c.height)
        \o VecU8Encode(c.data) \o F64Encode(c.timestamp)

ColorBincodeDecode(b, p) ==
    LET w  == VarintDecode(b, p, 64)
        h  == IF w.ok THEN VarintDecode(b, w.next, 64) ELSE Err
        d  == IF h.ok THEN VecU8Decode(b, h.next) ELSE Err
        t  == IF d.ok THEN F64Decode(b, d.next) ELSE Err
    IN  IF ~t.ok THEN Err
        ELSE Ok([width |-> w.val, height |-> h.val, timestamp |-> t.val,
                 data |-> d.val], t.next)

\* ImageForWire { image, timestamp }
ImageForWireBincode(e) == VecU8Encode(e.image) \o F64Encode(e.timestamp)

ImageForWireDecode(b, p) ==
    LET i == VecU8Decode(b, p)
        t == IF i.ok THEN F64Decode(b, i.next) ELSE Err
    IN  IF ~t.ok THEN Err
        ELSE Ok([image |-> i.val, timestamp |-> t.val], t.next)

\* [f32; 3]: the three floats, no length
Vec3Bincode(v) == F32Encode(v[1]) \o F32Encode(v[2]) \o F32Encode(v[3])

Vec3Decode(b, p) ==
    LET x == F32Decode(b, p)
        y == IF x.ok THEN F32Decode(b, x.next) ELSE Err
        z == IF y.ok THEN F32Decode(b, y.next) ELSE Err
    IN  IF ~z.ok THEN Err ELSE Ok(<<x.val, y.val, z.val>>, z.next)

\* MotionFrameData { gyro, accel, timestamp }
MotionBincode(m) ==
    Vec3Bincode(m.gyro) \o Vec3Bincode(m.accel) \o F64Encode(m.timestamp)

MotionBincodeDecode(b, p) ==
    LET g == Vec3Decode(b, p)
        a == IF g.ok THEN Vec3Decode(b, g.next) ELSE Err
        t == IF a.ok THEN F64Decode(b, a.next) ELSE Err
    IN  IF ~t.ok THEN Err
        ELSE Ok([gyro |-> g.val, accel |-> a.val, timestamp |-> t.val],
                t.next)

\* CombinedFrame { rgb, depth, timestamp }
CombinedFrameBincode(f) ==
    ColorBincode(f.rgb) \o DepthBincode(f.depth) \o F64Encode(f.timestamp)

CombinedFrameBincodeDecode(b, p) ==
    LET c == ColorBincodeDecode(b, p)
        d == IF c.ok THEN DepthBincodeDecode(b, c.next) ELSE Err
        t == IF d.ok THEN F64Decode(b, d.next) ELSE Err
    IN  IF ~t.ok THEN Err
        ELSE Ok([rgb |-> c.val, depth |-> d.val, timestamp |-> t.val],
                t.next)

\* CombinedFrameWire { rgb_jpeg, depth_zstd, width, height, timestamp }
WireBincode(w) ==
    VecU8Encode(w.rgb_jpeg) \o VecU8Encode(w.depth_zstd)
        \o VarintEncode(w.width) \o VarintEncode(w.height)
        \o F64Encode(w.timestamp)

WireBincodeDecode(b, p) ==
    LET j  == VecU8Decode(b, p)
        z  == IF j.ok THEN VecU8Decode(b, j.next) ELSE Err
        w  == IF z.ok THEN VarintDecode(b, z.next, 16) ELSE Err
        h  == IF w.ok THEN VarintDecode(b, w.next, 16) ELSE Err
        t  == IF h.ok THEN F64Decode(b, h.next) ELSE Err
    IN  IF ~t.ok THEN Err
        ELSE Ok([rgb_jpeg |-> j.val, depth_zstd |-> z.val, width |-> w.val,
                 height |-> h.val, timestamp |-> t.val], t.next)

(***************************************************************************)
(* The encode and decode operations of zenoh_types.rs.  A decode returns   *)
(* Err where the code panics on an unwrap; decode_from_slice also returns  *)
(* the number of bytes it read, which every caller discards.               *)
(***************************************************************************)
\* `n as u32` of a usize: every size of this model is below 2^31, and kept
AsU32(n) == n

\* `n as u16` of a usize: the low 16 bits
AsU16(n) == n % 2^16

DepthFrameSerializable_encodeAndCompress(d) == copy_encode(DepthBincode(d), 6)

\* Err when the image cannot be compressed
ColorFrameSerializable_encodeAndCompress(c) ==
    LET jpeg == compress_image(AsU32(c.width), AsU32(c.height), c.data)
    IN  IF ~jpeg.ok THEN Err
        ELSE Ok(ImageForWireBincode([image |-> jpeg.val,
                                     timestamp |-> c.timestamp]), 0)

\* a decode that hands back an empty image when the payload cannot be read
ColorDecodeLenient(encoded, debug_assertions) ==
    LET wire == ImageForWireDecode(encoded, 1)
        rgb  == IF wire.ok THEN decompress_image(wire.val.image) ELSE Err
    IN  IF ~wire.ok THEN Err
        ELSE Ok([rgb |-> IF rgb.ok THEN rgb.val.rgb ELSE <<>>,
                 timestamp |-> wire.val.timestamp], wire.next)

\* debug_assertions: whether the build keeps debug_assert!
ColorFrameSerializable_decodeAndDecompress(encoded, debug_assertions) ==
    LET wire == ImageForWireDecode(encoded, 1)
        rgb  == IF wire.ok THEN decompress_image(wire.val.image) ELSE Err
    IN  IF ~wire.ok THEN Err
        ELSE IF debug_assertions /\ ~StartsWith(wire.val.image, JpegSOI)
             THEN Err
        ELSE IF ~rgb.ok THEN Err
        ELSE Ok([rgb |-> rgb.val.rgb, timestamp |-> wire.val.timestamp],
                wire.next)

MotionFrameData_encodeAndCompress(m) == MotionBincode(m)

MotionFrameData_decodeAndDecompress(encoded) ==
    MotionBincodeDecode(encoded, 1)

CombinedFrame_encodeAndCompress(f) == copy_encode(CombinedFrameBincode(f), 6)

\* reads the bytes as bincode directly: nothing undoes copy_encode
CombinedFrame_decodeAndDecompress(encoded) ==
    CombinedFrameBincodeDecode(encoded, 1)

\* from_frames with the timestamp taken from the colour frame
FromFramesColorClock(depth, color) ==
    LET depth_ser == DepthFrameSerializable_new(depth, depth.timestamp)
        rgb       == RgbRows(color, 0)
        rgb_jpeg  == IF rgb.ok
                     THEN compress_image(AsU32(color.width),
                                         AsU32(color.height), rgb.val)
                     ELSE Err
    IN  IF ~rgb_jpeg.ok THEN Err
        ELSE Ok([rgb_jpeg   |-> rgb_jpeg.val,
                 depth_zstd |-> copy_encode(DepthBincode(depth_ser), 3),
                 width      |-> AsU16(color.width),
                 height     |-> AsU16(color.height),
                 timestamp  |-> color.timestamp], 0)

\* CombinedFrameWire::from_frames; Err where it panics (an unsupported pixel,
\* an image the compressor refuses)
CombinedFrameWire_from_frames(depth, color) ==
    LET depth_ser   == DepthFrameSerializable_new(depth, depth.timestamp)
        depth_bytes == DepthBincode(depth_ser)
        depth_zstd  == copy_encode(depth_bytes, 3)
        rgb         == RgbRows(color, 0)
        rgb_jpeg    == IF rgb.ok
                       THEN compress_image(AsU32(color.width),
                                           AsU32(color.height), rgb.val)
                       ELSE Err
    IN  IF ~rgb_jpeg.ok THEN Err
        ELSE Ok([rgb_jpeg   |-> rgb_jpeg.val,
                 depth_zstd |-> depth_zstd,
                 width      |-> AsU16(color.width),
                 height     |-> AsU16(color.height),
                 timestamp  |-> depth.timestamp], 0)

CombinedFrameWire_encode(w) == copy_encode(WireBincode(w), 1)

CombinedFrameWire_decode(buf) ==
    LET raw == decode_all(buf)
    IN  IF ~raw.ok THEN Err ELSE WireBincodeDecode(raw.val, 1)

CombinedFrameWire_unpack(w) ==
    LET rgb_raw == decompress_image(w.rgb_jpeg)
        bytes   == decode_all(w.depth_zstd)
        d       == IF bytes.ok THEN DepthBincodeDecode(bytes.val, 1) ELSE Err
    IN  IF ~rgb_raw.ok \/ ~d.ok THEN Err
        ELSE Ok([rgb |-> rgb_raw.val.rgb, depth |-> d.val.data,
                 width |-> w.width, height |-> w.height,
                 timestamp |-> w.timestamp], 0)

(***************************************************************************)
(* The captured frames tried                                               *)
(***************************************************************************)
\* the timestamp 1234.5
FrameTime == F64(0, 1033, 13795328, 0)

\* timestamps 1.0 and 1234.5
Timestamps == {F64(0, 1023, 0, 0), FrameTime}

\* distances with codes 0, 137, 4369, 21845, 65535 and one beyond the range
Distances ==
    << MINIMUM_DISTANCE_METERS, 8651652, F32One, 3 * F32One, MaxMeters,
       9 * F32One >>

Cells(w, h) == (0..(w - 1)) \X (0..(h - 1))

DepthFrameOf(w, h, seed, ts) ==
    [width |-> w, height |-> h, timestamp |-> ts,
     distance |-> [c \in Cells(w, h) |->
                      Distances[((seed + c[1] + 3 * c[2]) % Len(Distances)) + 1]]]

ColorFrameOf(w, h, kind, seed, ts) ==
    [width |-> w, height |-> h, timestamp |-> ts,
     pixel |-> [c \in Cells(w, h) |->
                   [kind |-> kind,
                    b |-> (200 + 16 * seed + 32 * c[1] + 64 * c[2]) % 256,
                    g |-> (100 + 16 * seed + 32 * c[1] + 64 * c[2]) % 256,
                    r |-> (16 * seed + 32 * c[1] + 64 * c[2]) % 256]]]

\* 0.0, 1.0 and -9.8 as f32
MotionVectors ==
    { <<F32(0, 0, 0), F32(0, 127, 0), F32(1, 130, 1887437)>>,
      <<F32(0, 127, 0), F32(0, 0, 0), F32(0, 127, 0)>> }

Dims == 0..MaxDim

Seeds == 0..MaxSeed

\* the pixel kinds a colour frame may deliver; only Bgr8 is supported
PixelKinds == {"Bgr8", "Rgb8"}

NoBytes == <<>>

\* the values of the other variables while the codec alone is exercised
QIdle == qpc = "idle" /\ qmeters = 0 /\ qcode = 0 /\ qback = 0

MIdle ==
    /\ mpc = "idle"
    /\ gyro = <<>>
    /\ accel = <<>>
    /\ frames = [depth |-> <<>>, color |-> <<>>, gyro |-> <<>>, accel |-> <<>>]
    /\ published = <<>>

\* the values of the codec's variables while no message is in hand
CIdle ==
    /\ cpc = "idle"
    /\ op = "none"
    /\ depthFrame = DepthFrameOf(0, 0, 0, F64(0, 0, 0, 0))
    /\ colorFrame = ColorFrameOf(0, 0, "Bgr8", 0, F64(0, 0, 0, 0))
    /\ motionSample = MotionFrameData_new(<<>>, <<>>, F64(0, 0, 0, 0))
    /\ built = Err
    /\ sent = NoBytes
    /\ tamper = "none"
    /\ recv = NoBytes
    /\ wireMsg = Err
    /\ out = Err

(***************************************************************************)
(* One message through the codec                                           *)
(***************************************************************************)
CInit ==
    /\ cpc = "start"
    /\ op = "none"
    /\ \E w \in Dims, h \in Dims, seed \in Seeds, ts \in Timestamps :
          depthFrame = DepthFrameOf(w, h, seed, ts)
    /\ \E w \in Dims, h \in Dims, kind \in PixelKinds :
          colorFrame = ColorFrameOf(w, h, kind, 0, FrameTime)
    /\ \E g \in MotionVectors :
          motionSample = MotionFrameData_new(g, <<g[3], g[2], g[1]>>, FrameTime)
    /\ built = Err
    /\ sent = NoBytes
    /\ tamper = "none"
    /\ recv = NoBytes
    /\ wireMsg = Err
    /\ out = Err

\* a record has been built, or building it panicked
Built(name, record) ==
    /\ cpc = "start"
    /\ op' = name
    /\ built' = record
    /\ cpc' = IF record.ok THEN "built" ELSE "panicked"
    /\ UNCHANGED <<depthFrame, colorFrame, motionSample, sent, tamper, recv,
                   wireMsg, out, qvars, mvars>>

FromFrames == Built("wire", CombinedFrameWire_from_frames(depthFrame, colorFrame))

ColorNew == Built("color", ColorFrameSerializable_new(colorFrame, colorFrame.timestamp))

DepthNew ==
    Built("depth", Ok(DepthFrameSerializable_new(depthFrame, depthFrame.timestamp), 0))

MotionNew ==
    Built("motion",
          Ok(MotionFrameData_new(motionSample.gyro, motionSample.accel, motionSample.timestamp), 0))

CombinedNew ==
    LET rgb == ColorFrameSerializable_new(colorFrame, colorFrame.timestamp)
    IN  Built("combined",
              IF ~rgb.ok THEN Err
              ELSE Ok(CombinedFrame_new(
                          rgb.val,
                          DepthFrameSerializable_new(depthFrame, depthFrame.timestamp),
                          depthFrame.timestamp), 0))

\* the record's encode operation has returned bytes, or panicked
Encoded(name, bytes) ==
    /\ cpc = "built"
    /\ op = name
    /\ sent' = IF bytes.ok THEN bytes.val ELSE NoBytes
    /\ cpc' = IF bytes.ok THEN "sent" ELSE "panicked"
    /\ UNCHANGED <<op, depthFrame, colorFrame, motionSample, built, tamper,
                   recv, wireMsg, out, qvars, mvars>>

WireEncode == Encoded("wire", Ok(CombinedFrameWire_encode(built.val), 0))

ColorEncode ==
    Encoded("color", ColorFrameSerializable_encodeAndCompress(built.val))

DepthEncode ==
    Encoded("depth", Ok(DepthFrameSerializable_encodeAndCompress(built.val), 0))

MotionEncode ==
    Encoded("motion", Ok(MotionFrameData_encodeAndCompress(built.val), 0))

CombinedEncode ==
    Encoded("combined", Ok(CombinedFrame_encodeAndCompress(built.val), 0))

\* the first two bytes of a payload inverted
FlipFirstTwo(b) ==
    [i \in 1..Len(b) |-> IF i <= 2 THEN 255 - b[i] ELSE b[i]]

\* the bytes the receiver gets: intact, with a byte added or lost at the end,
\* with the first two bytes of the embedded colour payload flipped, or with a
\* byte added at the end of the embedded depth record
Carried(kind) ==
    CASE kind = "intact" -> sent
      [] kind = "extra_byte" -> Append(sent, 0)
      [] kind = "truncated" -> Slice(sent, 1, Len(sent) - 1)
      [] kind = "bad_magic" ->
            IF op = "wire"
            THEN CombinedFrameWire_encode(
                     [built.val EXCEPT !.rgb_jpeg = FlipFirstTwo(@)])
            ELSE LET e == ImageForWireDecode(sent, 1).val
                 IN  ImageForWireBincode(
                         [e EXCEPT !.image = FlipFirstTwo(@)])
      [] kind = "depth_extra_byte" ->
            CombinedFrameWire_encode(
                [built.val EXCEPT !.depth_zstd =
                    copy_encode(Append(decode_all(@).val, 0), 3)])

TamperKinds(name) ==
    {"intact", "extra_byte", "truncated"}
        \cup (IF name \in {"wire", "color"} THEN {"bad_magic"} ELSE {})
        \cup (IF name = "wire" THEN {"depth_extra_byte"} ELSE {})

\* the transport hands bytes to the receiver (no decode operation exists for
\* the depth record alone)
Carry ==
    /\ cpc = "sent"
    /\ op # "depth"
    /\ \E kind \in TamperKinds(op) :
          /\ tamper' = kind
          /\ recv' = Carried(kind)
    /\ cpc' = "received"
    /\ UNCHANGED <<op, depthFrame, colorFrame, motionSample, built, sent,
                   wireMsg, out, qvars, mvars>>

\* a decode operation has returned, or panicked (out = Err)
Decoded(name, result) ==
    /\ cpc = "received"
    /\ op = name
    /\ out' = result
    /\ cpc' = "done"
    /\ UNCHANGED <<op, depthFrame, colorFrame, motionSample, built, sent,
                   tamper, recv, wireMsg, qvars, mvars>>

WireDecode ==
    /\ cpc = "received"
    /\ op = "wire"
    /\ wireMsg' = CombinedFrameWire_decode(recv)
    /\ cpc' = IF wireMsg'.ok THEN "decoded" ELSE "done"
    /\ UNCHANGED <<op, depthFrame, colorFrame, motionSample, built, sent,
                   tamper, recv, out, qvars, mvars>>

WireUnpack ==
    /\ cpc = "decoded"
    /\ out' = CombinedFrameWire_unpack(wireMsg.val)
    /\ cpc' = "done"
    /\ UNCHANGED <<op, depthFrame, colorFrame, motionSample, built, sent,
                   tamper, recv, wireMsg, qvars, mvars>>

ColorDecode ==
    \E debug_assertions \in BOOLEAN :
        Decoded("color",
                ColorFrameSerializable_decodeAndDecompress(recv, debug_assertions))

MotionDecode == Decoded("motion", MotionFrameData_decodeAndDecompress(recv))

CombinedDecode == Decoded("combined", CombinedFrame_decodeAndDecompress(recv))

CNext ==
    \/ FromFrames \/ ColorNew \/ DepthNew \/ MotionNew \/ CombinedNew
    \/ WireEncode \/ ColorEncode \/ DepthEncode \/ MotionEncode
    \/ CombinedEncode
    \/ Carry
    \/ WireDecode \/ WireUnpack \/ ColorDecode \/ MotionDecode
    \/ CombinedDecode

CodecInit == CInit /\ QIdle /\ MIdle

SpecCodec == CodecInit /\ [][CNext]_vars

(***************************************************************************)
(* C8: DepthFrameSerializable::new returns width * height codes, the code  *)
(* at row * width + col being encode_meters_to_u16 of the distance at      *)
(* (col, row), with the frame's width and height and the given timestamp.  *)
(***************************************************************************)
\* the record DepthFrameSerializable::new returned, where one was built alone
\* or as part of a CombinedFrame
DepthRecords ==
    IF ~built.ok THEN {}
    ELSE IF op = "depth" THEN {built.val}
    ELSE IF op = "combined" THEN {built.val.depth}
    ELSE {}

RowMajorCodes(codes, frame) ==
    /\ Len(codes) = frame.width * frame.height
    /\ \A row \in 0..(frame.height - 1), col \in 0..(frame.width - 1) :
          codes[row * frame.width + col + 1]
              = encode_meters_to_u16(frame.distance[<<col, row>>])

C8_RowMajor ==
    \A d \in DepthRecords :
        /\ RowMajorCodes(d.data, depthFrame)
        /\ d.width = depthFrame.width
        /\ d.height = depthFrame.height
        /\ d.timestamp = depthFrame.timestamp

\* a record of a frame two samples wide and two high has been built
C8_Witness ==
    /\ op = "depth"
    /\ cpc = "built"
    /\ depthFrame.width = 2
    /\ depthFrame.height = 2
    /\ built.val.data[2] # built.val.data[3]

(***************************************************************************)
(* C4: the serialized depth record, as encodeAndCompress and from_frames   *)
(* produce it before compression, carries width, height, timestamp, data   *)
(* in that order.                                                          *)
(***************************************************************************)
\* the serialized depth records in hand (decompressed), each with the record
\* it was made from
DepthLayouts ==
    (IF op = "depth" /\ cpc = "sent"
     THEN {[bytes |-> decode_all(sent).val, record |-> built.val]}
     ELSE {})
    \cup
    (IF op = "wire" /\ cpc = "built"
     THEN {[bytes  |-> decode_all(built.val.depth_zstd).val,
            record |-> DepthFrameSerializable_new(depthFrame,
                                                  depthFrame.timestamp)]}
     ELSE {})

\* bytes read as width, height, timestamp, data
ReadsTimestampThenData(b, d) ==
    LET w    == VarintDecode(b, 1, 64)
        h    == IF w.ok THEN VarintDecode(b, w.next, 64) ELSE Err
        t    == IF h.ok THEN F64Decode(b, h.next) ELSE Err
        data == IF t.ok THEN VecU16Decode(b, t.next) ELSE Err
    IN  /\ data.ok
        /\ data.next = Len(b) + 1
        /\ w.val = d.width /\ h.val = d.height
        /\ t.val = d.timestamp /\ data.val = d.data

\* bytes read as width, height, data, timestamp
ReadsDataThenTimestamp(b, d) ==
    LET w    == VarintDecode(b, 1, 64)
        h    == IF w.ok THEN VarintDecode(b, w.next, 64) ELSE Err
        data == IF h.ok THEN VecU16Decode(b, h.next) ELSE Err
        t    == IF data.ok THEN F64Decode(b, data.next) ELSE Err
    IN  /\ t.ok
        /\ t.next = Len(b) + 1
        /\ w.val = d.width /\ h.val = d.height
        /\ t.val = d.timestamp /\ data.val = d.data

C5_AsStated ==
    (op = "wire" /\ cpc = "built") =>
        LET image == decompress_image(built.val.rgb_jpeg).val
            d     == DepthBincodeDecode(
                         decode_all(built.val.depth_zstd).val, 1).val
        IN  /\ built.val.width = image.width
            /\ built.val.height = image.height
            /\ built.val.width = d.width
            /\ built.val.height = d.height

(***************************************************************************)
(* C1: packing a depth and a colour frame of the same resolution with      *)
(* from_frames + encode and running decode + unpack returns the depth      *)
(* codes element for element, and the width, height and timestamp packed.  *)
(***************************************************************************)
SameResolution ==
    /\ depthFrame.width = colorFrame.width
    /\ depthFrame.height = colorFrame.height

C1_RoundTrip ==
    (op = "wire" /\ cpc = "done" /\ tamper = "intact" /\ SameResolution) =>
        /\ out.ok
        /\ RowMajorCodes(out.val.depth, depthFrame)
        /\ out.val.width = depthFrame.width
        /\ out.val.height = depthFrame.height
        /\ out.val.timestamp = depthFrame.timestamp

\* a two by two pair whose clocks differ went through the round trip
C1_Witness ==
    /\ op = "wire"
    /\ cpc = "done"
    /\ tamper = "intact"
    /\ SameResolution
    /\ depthFrame.width = 2
    /\ depthFrame.height = 2
    /\ depthFrame.timestamp # colorFrame.timestamp
    /\ out.ok
    /\ Len(out.val.depth) = 4

(***************************************************************************)
(* C3: when the embedded colour payload of a message does not begin with   *)
(* the bytes FF D8, decoding the message fails; no RGB bytes are returned. *)
(***************************************************************************)
\* the colour payload embedded in the received bytes, where one can be read
EmbeddedColour ==
    IF op = "wire" /\ wireMsg.ok THEN {wireMsg.val.rgb_jpeg}
    ELSE IF op = "color" /\ ImageForWireDecode(recv, 1).ok
         THEN {ImageForWireDecode(recv, 1).val.image}
    ELSE {}

BadMagic == \E j \in EmbeddedColour : ~StartsWith(j, JpegSOI)

C3_BadMagicFails == (cpc = "done" /\ BadMagic) => ~out.ok

\* a message whose colour payload had its first two bytes flipped was decoded
C3_Witness ==
    /\ cpc = "done"
    /\ tamper = "bad_magic"
    /\ BadMagic
    /\ ~out.ok

(***************************************************************************)
(* C6: a decode operation returns a record whose serialized form is        *)
(* exactly the (decompressed) input, or fails: bytes left over after the   *)
(* record, too few bytes or a decompression failure are fatal.             *)
(***************************************************************************)
\* the received bytes are exactly the serialized form of what was decoded
ExactInput ==
    CASE op = "motion" -> MotionFrameData_encodeAndCompress(out.val) = recv
      [] op = "combined" -> CombinedFrame_encodeAndCompress(out.val) = recv
      [] op = "color" ->
            ImageForWireBincode(ImageForWireDecode(recv, 1).val) = recv
      [] op = "wire" ->
            LET inner == decode_all(wireMsg.val.depth_zstd).val
            IN  /\ WireBincode(wireMsg.val) = decode_all(recv).val
                /\ DepthBincode(DepthBincodeDecode(inner, 1).val) = inner

C6_AsStated == (cpc = "done" /\ out.ok) => ExactInput

(***************************************************************************)
(* C9: CombinedFrame::decodeAndDecompress applied to the bytes returned by *)
(* encodeAndCompress returns a record equal to the one encoded.            *)
(***************************************************************************)
C9_AsStated ==
    (op = "combined" /\ cpc = "done" /\ tamper = "intact") =>
        (out.ok /\ out.val = built.val)

(***************************************************************************)
(* The capture loop of main (main.rs 68-109)                               *)
(***************************************************************************)
ZeroVector == <<F32(0, 0, 0), F32(0, 0, 0), F32(0, 0, 0)>>

\* the lists frames_of_type may return for each kind of frame
DepthLists ==
    {[i \in 1..n |-> DepthFrameOf(2, 1, i % (MaxSeed + 1), FrameTime)] :
        n \in 0..MaxFrames}

ColorLists ==
    {[i \in 1..n |-> ColorFrameOf(2, 1, kind, i % (MaxSeed + 1), FrameTime)] :
        n \in 0..MaxFrames, kind \in PixelKinds}

GyroLists ==
    UNION {[1..n -> {[rotational_velocity |-> v, timestamp |-> t] :
                        v \in MotionVectors, t \in {FrameTime}}] :
              n \in 0..MaxFrames}

AccelLists ==
    {[i \in 1..n |-> [acceleration |-> <<v[1 + (i % 3)], v[2], v[3 - (i % 3)]>>,
                      timestamp |-> FrameTime]] :
        n \in 0..MaxFrames, v \in MotionVectors}

FrameSets ==
    [depth : DepthLists, color : ColorLists, gyro : GyroLists,
     accel : AccelLists]

Last(list) == list[Len(list)]

Put(key, payload) == Append(published, [key |-> key, payload |-> payload])

MInit ==
    /\ QIdle
    /\ CIdle
    /\ mpc = "wait"
    /\ gyro = ZeroVector
    /\ accel = ZeroVector
    /\ frames = [depth |-> <<>>, color |-> <<>>, gyro |-> <<>>, accel |-> <<>>]
    /\ published = <<>>

\* pipeline.wait returned a frame set
Wait ==
    /\ mpc = "wait"
    /\ frames' \in FrameSets
    /\ published' = <<>>
    /\ mpc' = "video"
    /\ UNCHANGED <<gyro, accel, qvars, cvars>>

\* pipeline.wait timed out: `?` returns the error from main
WaitFails ==
    /\ mpc = "wait"
    /\ mpc' = "exit"
    /\ UNCHANGED <<gyro, accel, frames, published, qvars, cvars>>

HasVideo == frames.depth # <<>> /\ frames.color # <<>>

\* the CombinedFrameWire built from the popped (last) depth and colour frames
CombinedOfFrames ==
    CombinedFrameWire_from_frames(Last(frames.depth), Last(frames.color))

PublishCombined ==
    /\ mpc = "video"
    /\ HasVideo
    /\ CombinedOfFrames.ok
    /\ published' =
          Put("camera/combined", CombinedFrameWire_encode(CombinedOfFrames.val))
    /\ mpc' = "imu"
    /\ UNCHANGED <<gyro, accel, frames, qvars, cvars>>

\* from_frames panicked
CombinedPanics ==
    /\ mpc = "video"
    /\ HasVideo
    /\ ~CombinedOfFrames.ok
    /\ mpc' = "panicked"
    /\ UNCHANGED <<gyro, accel, frames, published, qvars, cvars>>

\* session.put returned an error
PutCombinedFails ==
    /\ mpc = "video"
    /\ HasVideo
    /\ CombinedOfFrames.ok
    /\ mpc' = "exit"
    /\ UNCHANGED <<gyro, accel, frames, published, qvars, cvars>>

SkipCombined ==
    /\ mpc = "video"
    /\ ~HasVideo
    /\ mpc' = "imu"
    /\ UNCHANGED <<gyro, accel, frames, published, qvars, cvars>>

HasMotion == frames.gyro # <<>> /\ frames.accel # <<>>

\* the motion message made of whatever gyro and accel held before this
\* iteration assigned them
PublishMotionStale ==
    /\ mpc = "imu"
    /\ HasMotion
    /\ gyro' = frames.gyro[1].rotational_velocity
    /\ accel' = frames.accel[1].acceleration
    /\ published' =
          Put("camera/motion",
              MotionFrameData_encodeAndCompress(
                  MotionFrameData_new(gyro, accel, frames.gyro[1].timestamp)))
    /\ mpc' = "end"
    /\ UNCHANGED <<frames, qvars, cvars>>

PublishMotion ==
    /\ mpc = "imu"
    /\ HasMotion
    /\ gyro' = frames.gyro[1].rotational_velocity
    /\ accel' = frames.accel[1].acceleration
    /\ published' =
          Put("camera/motion",
              MotionFrameData_encodeAndCompress(
                  MotionFrameData_new(gyro', accel', frames.gyro[1].timestamp)))
    /\ mpc' = "end"
    /\ UNCHANGED <<frames, qvars, cvars>>

PutMotionFails ==
    /\ mpc = "imu"
    /\ HasMotion
    /\ gyro' = frames.gyro[1].rotational_velocity
    /\ accel' = frames.accel[1].acceleration
    /\ mpc' = "exit"
    /\ UNCHANGED <<frames, published, qvars, cvars>>

SkipMotion ==
    /\ mpc = "imu"
    /\ ~HasMotion
    /\ mpc' = "end"
    /\ UNCHANGED <<gyro, accel, frames, published, qvars, cvars>>

NoFrames == [depth |-> <<>>, color |-> <<>>, gyro |-> <<>>, accel |-> <<>>]

\* the loop starts over; the frame set goes out of scope
NextIteration ==
    /\ mpc = "end"
    /\ mpc' = "wait"
    /\ frames' = NoFrames
    /\ published' = <<>>
    /\ UNCHANGED <<gyro, accel, qvars, cvars>>

Next ==
    \/ Wait \/ WaitFails
    \/ PublishCombined \/ CombinedPanics \/ PutCombinedFails \/ SkipCombined
    \/ PublishMotion \/ PutMotionFails \/ SkipMotion
    \/ NextIteration

Spec == MInit /\ [][Next]_vars

(***************************************************************************)
(* C10: in every iteration of the capture loop that no step failed, a      *)
(* message is put on "camera/combined" iff the frame set holds a depth and *)
(* a colour frame, one on "camera/motion" iff it holds a gyro and an accel *)
(* frame; the motion message carries this frame set's gyro and accel       *)
(* values, and the combined message comes first.                           *)
(***************************************************************************)
Keys == [i \in 1..Len(published) |-> published[i].key]

MotionOfFrames ==
    MotionFrameData_new(frames.gyro[1].rotational_velocity,
                        frames.accel[1].acceleration,
                        frames.gyro[1].timestamp)

C10_Publishes ==
    mpc = "end" =>
        /\ Keys = (IF HasVideo THEN <<"camera/combined">> ELSE <<>>)
                     \o (IF HasMotion THEN <<"camera/motion">> ELSE <<>>)
        /\ HasMotion =>
              MotionFrameData_decodeAndDecompress(Last(published).payload).val
                  = MotionOfFrames

\* both messages were published in an iteration whose gyro and accel values
\* differ from the ones main held before it
C10_Witness ==
    /\ mpc = "end"
    /\ Len(published) = 2
    /\ Len(frames.gyro) = 2
    /\ frames.gyro[1] # frames.gyro[2]
    /\ gyro # ZeroVector

(***************************************************************************)
(* Quantizer calls: the distances tried                                    *)
(***************************************************************************)
SampleCodes ==
    {i * CodeStride : i \in 0..MaxCodeSample}
        \cup {U16_MAX - i * CodeStride : i \in 0..MaxCodeSample}

\* the distance at which the exact product reaches the code k, rounded down to
\* a count of 2^-24
CodeEdge(k) ==
    DivBits(k \div DEPTH_SCALE_FACTOR, k % DEPTH_SCALE_FACTOR,
            DEPTH_SCALE_FACTOR, 24).q + MINIMUM_DISTANCE_METERS

\* spacing of the f32 values around the count n
Ulp(n) == IF BitLen(n) > 24 THEN 2^(BitLen(n) - 24) ELSE 1

\* the f32 values next to each code's edge, on both sides
EdgeMeters ==
    UNION {LET g == CodeEdge(k) - (CodeEdge(k) % Ulp(CodeEdge(k)))
           IN  {g - Ulp(g), g, g + Ulp(g), g + 2 * Ulp(g)} : k \in SampleCodes}

InRangeMeters ==
    {m \in EdgeMeters : MINIMUM_DISTANCE_METERS <= m /\ m <= MaxMeters}

\* distances outside the range the codes cover, below and above
OutOfRangeMeters ==
    { 0, -F32One, MINIMUM_DISTANCE_METERS - 1, F32One \div 4,
      MaxMeters + 16, 9 * F32One, 16 * F32One, 100 * F32One }

InRange(m) == MINIMUM_DISTANCE_METERS <= m /\ m <= MaxMeters

QInit ==
    /\ CIdle
    /\ MIdle
    /\ qpc = "input"
    /\ qmeters \in InRangeMeters \cup OutOfRangeMeters
    /\ qcode = 0
    /\ qback = 0

QEncode ==
    /\ qpc = "input"
    /\ qcode' = encode_meters_to_u16(qmeters)
    /\ qpc' = "encoded"
    /\ UNCHANGED <<qmeters, qback, cvars, mvars>>

QDecode ==
    /\ qpc = "encoded"
    /\ qback' = decode_u16_to_meters(qcode)
    /\ qpc' = "decoded"
    /\ UNCHANGED <<qmeters, qcode, cvars, mvars>>

QNext == QEncode \/ QDecode

SpecQuant == QInit /\ [][QNext]_vars

(***************************************************************************)
(* C2: for every distance in [MIN_METERS, 65535/SCALE + MIN_METERS] the    *)
(* round trip decode(encode(m)) is within 1/SCALE metres of m, and         *)
(* encode(m) equals floor((m - MIN_METERS) * SCALE).                       *)
(***************************************************************************)
\* |qback - qmeters| <= 1/SCALE, in whole counts of 2^-24
WithinOneStep == Abs(qback - qmeters) <= F32One \div DEPTH_SCALE_FACTOR

ExactFloor ==
    ExactMulFloor(qmeters - MINIMUM_DISTANCE_METERS, DEPTH_SCALE_FACTOR)

\* the claim as stated: the code is the floor of the exact product
C2_AsStated ==
    (qpc = "decoded" /\ InRange(qmeters))
        => (WithinOneStep /\ qcode = ExactFloor)

\* as amended: the product is rounded to f32 before it is truncated, so the
\* qcode is the floor of the exact product or one more; the error bound holds
C2_RoundTrip ==
    (qpc = "decoded" /\ InRange(qmeters))
        => /\ WithinOneStep
           /\ qcode \in {ExactFloor, ExactFloor + 1}
           /\ qcode <= U16_MAX

\* a distance whose f32 product rounds up to the next integer has been
\* encoded and decoded
C2_Witness ==
    /\ qpc = "decoded"
    /\ InRange(qmeters)
    /\ qcode = ExactFloor + 1

(***************************************************************************)
(* C7: out of range, encode_meters_to_u16 raises no error and wraps in     *)
(* 16-bit arithmetic: above the range the code is floor((m - MIN) * SCALE) *)
(* modulo 2^16, below it the wrapped value of the negative product.        *)
(***************************************************************************)
\* the integer part of the f32 product, signed
TruncProduct ==
    LET x == F32Sub(qmeters, MINIMUM_DISTANCE_METERS)
    IN  Sign(x) * F32MulTrunc(Abs(x), DEPTH_SCALE_FACTOR)

C7_AsStated ==
    (qpc # "input" /\ ~InRange(qmeters)) => qcode = TruncProduct % 2^16

\* as amended: the conversion saturates
C7_Saturates ==
    (qpc # "input" /\ ~InRange(qmeters))
        => qcode = IF qmeters > MaxMeters THEN U16_MAX ELSE 0

\* a distance whose product is beyond 2^16 has been encoded
C7_Witness ==
    /\ qpc = "encoded"
    /\ qmeters > MaxMeters
    /\ TruncProduct > 2^16
    /\ qcode = U16_MAX

====
